---- MODULE Spec2Model ----
\* A model of the two desktop generators of the repository, the Incity
\* widget generator (src/GEN/incity_generator.py) and the Lyon weather
\* generator (src/GEN/lyon_generator.py): the session state of the window
\* (reference image, credential field, log box), the button handlers that
\* dispatch generation tasks, and the background thread that runs
\* generate_task for each dispatched task.
EXTENDS Integers, Sequences, FiniteSets, TLC

\* ---------------------------------------------------------------------
\* Bounds of the exploration
\* ---------------------------------------------------------------------

\* Task threads that may be started in one behaviour of SpecTasks.
MaxThreads == 2

\* Buttons of the running generator's catalog that the user may press in
\* SpecTasks and SpecDispatch (the first MaxButtons of create_buttons).
MaxButtons == 2

\* Parts of one adapter response in Spec and SpecCatalog.
MaxParts == 2

\* Parts of one adapter response in SpecTasks, where several tasks run
\* side by side.
MaxBatchParts == 1

\* load_image operations that get past the file picker in one behaviour.
MaxLoads == 1

\* Successful dispatch operations in one behaviour of SpecDispatch.
MaxDispatch == 1

\* ---------------------------------------------------------------------
\* Text helpers (Python str operations used by the code)
\* ---------------------------------------------------------------------

\* The value Python's None is modelled by.
None == "None"

StartsWith(s, p) ==
  Len(p) <= Len(s) /\ SubSeq(s, 1, Len(p)) = p

\* str.find(sub, i): first position from i on at which sub occurs in s, 0
\* when it does not occur.
FindFrom(s, sub, i) ==
  LET hits == {j \in i..(Len(s) - Len(sub) + 1) :
                 SubSeq(s, j, j + Len(sub) - 1) = sub}
  IN IF hits = {} THEN 0 ELSE CHOOSE j \in hits : \A k \in hits : j <= k

Find(s, sub) == FindFrom(s, sub, 1)

Contains(s, sub) == Find(s, sub) > 0

Whitespace == {" ", "\t"}

RECURSIVE lstrip(_)
lstrip(s) ==
  IF Len(s) > 0 /\ SubSeq(s, 1, 1) \in Whitespace
  THEN lstrip(SubSeq(s, 2, Len(s)))
  ELSE s

RECURSIVE rstrip(_)
rstrip(s) ==
  IF Len(s) > 0 /\ SubSeq(s, Len(s), Len(s)) \in Whitespace
  THEN rstrip(SubSeq(s, 1, Len(s) - 1))
  ELSE s

\* strip that leaves the text as it is.
strip_nothing(s) == s

\* str.strip() with no argument.
strip(s) == rstrip(lstrip(s))

\* Elements of a sequence, and the concatenation of a sequence of sequences.
Range(seq) == {seq[i] : i \in 1..Len(seq)}

RECURSIVE Flatten(_)
Flatten(ss) ==
  IF ss = <<>> THEN <<>> ELSE Head(ss) \o Flatten(Tail(ss))

\* ---------------------------------------------------------------------
\* The prompt catalogs
\* ---------------------------------------------------------------------

\* ---- Incity catalog: the buttons declared by create_buttons ----

\* Group A: the seven add_btn calls of rows 1-4, as <<filename, prompt_add>>.
buttons_day ==
  <<
    <<"incity_clear_golden.png", "Golden hour lighting, warm orange and pink sunset sky, soft golden light reflecting on the tower glass facade, dramatic long shadows, romantic warm atmosphere, the tower lit by beautiful sunset colors">>,
    <<"incity_clear_day.png", "Bright sunny midday, clear vivid blue sky, strong direct sunlight, sharp shadows on the tower, bright cheerful atmosphere, summer vibes, the glass facade reflecting the blue sky">>,
    <<"incity_partly_cloudy_day.png", "Partly cloudy sky, mix of blue sky and white fluffy clouds, sun visible between clouds, dynamic lighting with soft shadows, pleasant weather, some clouds drifting across the sky, the tower with alternating sun and cloud shadows">>,
    <<"incity_cloudy_day.png", "Overcast grey sky, flat diffused lighting, no direct shadows, soft grey clouds covering the sky, muted colors, typical Lyon grey day atmosphere, the tower under cloudy weather">>,
    <<"incity_rain_day.png", "Rainy weather, dark grey stormy clouds, visible rain drops falling, wet reflections on surfaces, puddles on the ground, moody rainy atmosphere, the tower during rainfall with glistening wet facade">>,
    <<"incity_snow_day.png", "Snowy winter day, white overcast sky, snow falling gently, snow accumulation on surfaces, cold blue-white atmosphere, winter wonderland, the tower covered with snow on ledges">>,
    <<"incity_storm_day.png", "Dramatic thunderstorm, very dark ominous clouds, lightning bolt visible in the sky, intense atmosphere, dramatic contrast between dark sky and occasional light, the tower during a powerful storm">>
  >>

\* Group B: the (filename, prompt) columns of the easter_eggs_day list.
easter_eggs_day ==
  <<
    <<"incity_fete_lumieres_day.png", "Early december day, pale winter sunlight, sky with subtle purple and blue gradient hues, the tower with faint colorful LED lights visible on facade even in daylight, magical anticipation atmosphere, crisp cold air feeling">>,
    <<"incity_noel_day.png", "Christmas day, soft golden winter light, light snow falling, sky with warm peachy pink winter clouds, the tower with subtle green and red LED lights glowing softly on facade, cozy magical Christmas morning atmosphere">>,
    <<"incity_nouvel_an_day.png", "New Year's day morning, bright crisp winter light, sky with golden and champagne colored clouds, the tower with faint golden sparkle LED lights on facade, fresh hopeful new beginning atmosphere">>,
    <<"incity_14_juillet_day.png", "Bastille Day, bright summer sun, vivid blue sky with subtle white clouds forming tricolor effect, the tower with faint blue white red LED accent lights on facade, patriotic celebratory summer atmosphere">>,
    <<"incity_halloween_day.png", "Halloween day, dramatic orange and purple sunset sky, moody clouds with eerie autumn colors, the tower with faint orange and purple LED lights glowing on facade, mysterious spooky but fun atmosphere">>,
    <<"incity_saint_valentin_day.png", "Valentine's day, soft romantic pink golden hour light, sky with delicate pink and rose colored clouds, the tower with subtle pink heart-shaped LED patterns glowing softly on facade, romantic dreamy love atmosphere">>
  >>

\* Group C: the (filename, prompt) columns of the easter_eggs list.
easter_eggs ==
  <<
    <<"incity_fete_lumieres_night.png", "Night scene, dark blue sky with stars, the Incity tower displaying SPECTACULAR COLORFUL LED LIGHT SHOW, animated rainbow colors flowing on the facade, purple blue pink lights, artistic light projections, Lyon Festival of Lights celebration, magical luminous atmosphere, the tower as a beacon of colored lights">>,
    <<"incity_noel_night.png", "Christmas night, dark starry sky, light snow falling, the Incity tower displaying FESTIVE RED AND GREEN LED LIGHTS, Christmas tree pattern made of green LEDs, red accents, warm golden fairy lights, holiday spirit, magical cozy Christmas atmosphere on the tower">>,
    <<"incity_nouvel_an_night.png", "New Year's Eve night, fireworks exploding in the sky, the Incity tower displaying GOLDEN AND WHITE SPARKLING LED ANIMATION, shimmering golden lights cascading down the facade, champagne gold and silver sparkles, celebratory atmosphere, the tower glowing with festive golden light">>,
    <<"incity_14_juillet_night.png", "Bastille Day night, fireworks in the background, the Incity tower displaying FRENCH FLAG COLORS in LED lights, blue white red vertical stripes illuminating the facade, patriotic tricolor lighting, national celebration, the tower proudly showing bleu blanc rouge">>,
    <<"incity_halloween_night.png", "Halloween night, full moon visible, spooky atmosphere, the Incity tower displaying ORANGE AND PURPLE LED LIGHTS, jack-o-lantern face pattern in orange LEDs, purple accents, eerie glow, bats silhouettes near the tower, spooky but fun Halloween lighting">>,
    <<"incity_saint_valentin_night.png", "Valentine's night, romantic starry sky, the Incity tower displaying PINK AND RED HEART-SHAPED LED PATTERNS, multiple hearts made of pink LEDs flowing up the facade, romantic rose-colored glow, love atmosphere, the tower as a symbol of love with heart lights">>
  >>

\* Group D: base fragment and the (filename, led_color) columns of night_colors.
night_base ==
  "Night scene, dark blue night sky with soft 3D claymorphism clouds, crescent moon visible in the sky, the Incity tower with its rectangular top section displaying HORIZONTAL LED LIGHT LINES, the cylindrical lower section with warm orange lit windows, calm peaceful night atmosphere"
night_colors ==
  <<
    <<"incity_night_cyan.png", "bright cyan turquoise">>,
    <<"incity_night_green.png", "mint green teal">>,
    <<"incity_night_yellow.png", "bright yellow">>,
    <<"incity_night_red.png", "vivid red coral">>,
    <<"incity_night_purple.png", "deep purple magenta">>
  >>

\* Group E: base fragment and the (filename, led_color) columns of fullmoon_colors.
fullmoon_base ==
  "Night scene, dark blue night sky with soft 3D claymorphism clouds, LARGE BRIGHT FULL MOON prominently visible in the sky casting silver moonlight, the Incity tower with its rectangular top section displaying HORIZONTAL LED LIGHT LINES, the cylindrical lower section with warm orange lit windows, magical mystical full moon night atmosphere, moon reflecting on tower surface"
fullmoon_colors ==
  <<
    <<"incity_fullmoon_cyan.png", "bright cyan turquoise">>,
    <<"incity_fullmoon_green.png", "mint green teal">>,
    <<"incity_fullmoon_yellow.png", "bright yellow">>,
    <<"incity_fullmoon_red.png", "vivid red coral">>,
    <<"incity_fullmoon_purple.png", "deep purple magenta">>
  >>


\* The f-string of the night and full-moon button loops.
LedPrompt(base, led_color) ==
  base \o ", the LED lines glowing in " \o led_color \o " color"

buttons_night ==
  [i \in 1..Len(night_colors) |->
    <<night_colors[i][1], LedPrompt(night_base, night_colors[i][2])>>]

buttons_fullmoon ==
  [i \in 1..Len(fullmoon_colors) |->
    <<fullmoon_colors[i][1], LedPrompt(fullmoon_base, fullmoon_colors[i][2])>>]

\* Every (filename, prompt_add) pair bound to an Incity button, in creation order.
incity_buttons ==
  buttons_day \o easter_eggs_day \o easter_eggs \o buttons_night
    \o buttons_fullmoon

\* ---- Incity catalog: the lists of the generate_all_<group> handlers ----

\* day_configs with its last entry forgotten.
day_configs_short == SubSeq(buttons_day, 1, Len(buttons_day) - 1)

day_configs ==
  <<
    <<"incity_clear_golden.png", "Golden hour lighting, warm orange and pink sunset sky, soft golden light reflecting on the tower glass facade, dramatic long shadows, romantic warm atmosphere, the tower lit by beautiful sunset colors">>,
    <<"incity_clear_day.png", "Bright sunny midday, clear vivid blue sky, strong direct sunlight, sharp shadows on the tower, bright cheerful atmosphere, summer vibes, the glass facade reflecting the blue sky">>,
    <<"incity_partly_cloudy_day.png", "Partly cloudy sky, mix of blue sky and white fluffy clouds, sun visible between clouds, dynamic lighting with soft shadows, pleasant weather, some clouds drifting across the sky, the tower with alternating sun and cloud shadows">>,
    <<"incity_cloudy_day.png", "Overcast grey sky, flat diffused lighting, no direct shadows, soft grey clouds covering the sky, muted colors, typical Lyon grey day atmosphere, the tower under cloudy weather">>,
    <<"incity_rain_day.png", "Rainy weather, dark grey stormy clouds, visible rain drops falling, wet reflections on surfaces, puddles on the ground, moody rainy atmosphere, the tower during rainfall with glistening wet facade">>,
    <<"incity_snow_day.png", "Snowy winter day, white overcast sky, snow falling gently, snow accumulation on surfaces, cold blue-white atmosphere, winter wonderland, the tower covered with snow on ledges">>,
    <<"incity_storm_day.png", "Dramatic thunderstorm, very dark ominous clouds, lightning bolt visible in the sky, intense atmosphere, dramatic contrast between dark sky and occasional light, the tower during a powerful storm">>
  >>

easter_day_configs ==
  <<
    <<"incity_fete_lumieres_day.png", "Early december day, pale winter sunlight, sky with subtle purple and blue gradient hues, the tower with faint colorful LED lights visible on facade even in daylight, magical anticipation atmosphere, crisp cold air feeling">>,
    <<"incity_noel_day.png", "Christmas day, soft golden winter light, light snow falling, sky with warm peachy pink winter clouds, the tower with subtle green and red LED lights glowing softly on facade, cozy magical Christmas morning atmosphere">>,
    <<"incity_nouvel_an_day.png", "New Year's day morning, bright crisp winter light, sky with golden and champagne colored clouds, the tower with faint golden sparkle LED lights on facade, fresh hopeful new beginning atmosphere">>,
    <<"incity_14_juillet_day.png", "Bastille Day, bright summer sun, vivid blue sky with subtle white clouds forming tricolor effect, the tower with faint blue white red LED accent lights on facade, patriotic celebratory summer atmosphere">>,
    <<"incity_halloween_day.png", "Halloween day, dramatic orange and purple sunset sky, moody clouds with eerie autumn colors, the tower with faint orange and purple LED lights glowing on facade, mysterious spooky but fun atmosphere">>,
    <<"incity_saint_valentin_day.png", "Valentine's day, soft romantic pink golden hour light, sky with delicate pink and rose colored clouds, the tower with subtle pink heart-shaped LED patterns glowing softly on facade, romantic dreamy love atmosphere">>
  >>

\* The Easter-egg night list retyped with the filenames of the day list.
easter_night_configs_day_names ==
  <<
    <<"incity_fete_lumieres_day.png", "Night scene, dark blue sky with stars, the Incity tower displaying SPECTACULAR COLORFUL LED LIGHT SHOW, animated rainbow colors flowing on the facade, purple blue pink lights, artistic light projections, Lyon Festival of Lights celebration, magical luminous atmosphere, the tower as a beacon of colored lights">>,
    <<"incity_noel_day.png", "Christmas night, dark starry sky, light snow falling, the Incity tower displaying FESTIVE RED AND GREEN LED LIGHTS, Christmas tree pattern made of green LEDs, red accents, warm golden fairy lights, holiday spirit, magical cozy Christmas atmosphere on the tower">>,
    <<"incity_nouvel_an_day.png", "New Year's Eve night, fireworks exploding in the sky, the Incity tower displaying GOLDEN AND WHITE SPARKLING LED ANIMATION, shimmering golden lights cascading down the facade, champagne gold and silver sparkles, celebratory atmosphere, the tower glowing with festive golden light">>,
    <<"incity_14_juillet_day.png", "Bastille Day night, fireworks in the background, the Incity tower displaying FRENCH FLAG COLORS in LED lights, blue white red vertical stripes illuminating the facade, patriotic tricolor lighting, national celebration, the tower proudly showing bleu blanc rouge">>,
    <<"incity_halloween_day.png", "Halloween night, full moon visible, spooky atmosphere, the Incity tower displaying ORANGE AND PURPLE LED LIGHTS, jack-o-lantern face pattern in orange LEDs, purple accents, eerie glow, bats silhouettes near the tower, spooky but fun Halloween lighting">>,
    <<"incity_saint_valentin_day.png", "Valentine's night, romantic starry sky, the Incity tower displaying PINK AND RED HEART-SHAPED LED PATTERNS, multiple hearts made of pink LEDs flowing up the facade, romantic rose-colored glow, love atmosphere, the tower as a symbol of love with heart lights">>
  >>

easter_night_configs ==
  <<
    <<"incity_fete_lumieres_night.png", "Night scene, dark blue sky with stars, the Incity tower displaying SPECTACULAR COLORFUL LED LIGHT SHOW, animated rainbow colors flowing on the facade, purple blue pink lights, artistic light projections, Lyon Festival of Lights celebration, magical luminous atmosphere, the tower as a beacon of colored lights">>,
    <<"incity_noel_night.png", "Christmas night, dark starry sky, light snow falling, the Incity tower displaying FESTIVE RED AND GREEN LED LIGHTS, Christmas tree pattern made of green LEDs, red accents, warm golden fairy lights, holiday spirit, magical cozy Christmas atmosphere on the tower">>,
    <<"incity_nouvel_an_night.png", "New Year's Eve night, fireworks exploding in the sky, the Incity tower displaying GOLDEN AND WHITE SPARKLING LED ANIMATION, shimmering golden lights cascading down the facade, champagne gold and silver sparkles, celebratory atmosphere, the tower glowing with festive golden light">>,
    <<"incity_14_juillet_night.png", "Bastille Day night, fireworks in the background, the Incity tower displaying FRENCH FLAG COLORS in LED lights, blue white red vertical stripes illuminating the facade, patriotic tricolor lighting, national celebration, the tower proudly showing bleu blanc rouge">>,
    <<"incity_halloween_night.png", "Halloween night, full moon visible, spooky atmosphere, the Incity tower displaying ORANGE AND PURPLE LED LIGHTS, jack-o-lantern face pattern in orange LEDs, purple accents, eerie glow, bats silhouettes near the tower, spooky but fun Halloween lighting">>,
    <<"incity_saint_valentin_night.png", "Valentine's night, romantic starry sky, the Incity tower displaying PINK AND RED HEART-SHAPED LED PATTERNS, multiple hearts made of pink LEDs flowing up the facade, romantic rose-colored glow, love atmosphere, the tower as a symbol of love with heart lights">>
  >>

\* A night_base retyped for the batch with other words.
night_base_batch_reworded ==
  "Night scene, dark night sky, the Incity tower displaying LED LIGHT LINES"

night_base_batch ==
  "Night scene, dark blue night sky with soft 3D claymorphism clouds, crescent moon visible in the sky, the Incity tower with its rectangular top section displaying HORIZONTAL LED LIGHT LINES, the cylindrical lower section with warm orange lit windows, calm peaceful night atmosphere"
night_configs ==
  <<
    <<"incity_night_cyan.png", night_base_batch \o ", the LED lines glowing in bright cyan turquoise color">>,
    <<"incity_night_green.png", night_base_batch \o ", the LED lines glowing in mint green teal color">>,
    <<"incity_night_yellow.png", night_base_batch \o ", the LED lines glowing in bright yellow color">>,
    <<"incity_night_red.png", night_base_batch \o ", the LED lines glowing in vivid red coral color">>,
    <<"incity_night_purple.png", night_base_batch \o ", the LED lines glowing in deep purple magenta color">>
  >>

fullmoon_base_batch ==
  "Night scene, dark blue night sky with soft 3D claymorphism clouds, LARGE BRIGHT FULL MOON prominently visible in the sky casting silver moonlight, the Incity tower with its rectangular top section displaying HORIZONTAL LED LIGHT LINES, the cylindrical lower section with warm orange lit windows, magical mystical full moon night atmosphere, moon reflecting on tower surface"
\* The full-moon list written in the opposite order.
fullmoon_configs_reversed ==
  [i \in 1..Len(buttons_fullmoon) |->
    buttons_fullmoon[Len(buttons_fullmoon) + 1 - i]]

fullmoon_configs ==
  <<
    <<"incity_fullmoon_cyan.png", fullmoon_base_batch \o ", the LED lines glowing in bright cyan turquoise color">>,
    <<"incity_fullmoon_green.png", fullmoon_base_batch \o ", the LED lines glowing in mint green teal color">>,
    <<"incity_fullmoon_yellow.png", fullmoon_base_batch \o ", the LED lines glowing in bright yellow color">>,
    <<"incity_fullmoon_red.png", fullmoon_base_batch \o ", the LED lines glowing in vivid red coral color">>,
    <<"incity_fullmoon_purple.png", fullmoon_base_batch \o ", the LED lines glowing in deep purple magenta color">>
  >>

\* ---- Lyon catalog: the (filename_base, prompt_day, prompt_night) columns of easter_eggs ----

lyon_easter_eggs ==
  <<
    <<"fete_lumieres",
      "early december, clear pale blue winter sky, bright cold daylight, no snow on ground, bare trees, festive banners hanging on lampposts, colorful light installations visible on buildings but turned off during day, projection screens being set up, anticipation atmosphere, crisp winter air",
      "winter night, spectacular light projections on Basilique de Fourviere, colorful artistic illuminations on buildings, glowing light installations, purple blue pink lights reflecting on Saone river, magical atmosphere, Lyon Fete des Lumieres festival, no snow">>,
    <<"noel",
      "winter, light snow on rooftops, clear cold sky, bright winter sun, Christmas decorations on streets, festive garlands, Christmas market stalls with red roofs, decorated Christmas trees, warm cozy atmosphere, holiday spirit",
      "Christmas Eve night, clear starry sky, gentle snow falling, warm glowing Christmas lights on buildings, illuminated Christmas trees, golden fairy lights garlands, cozy warm windows glowing, magical peaceful Christmas atmosphere, stars twinkling">>,
    <<"nouvel_an",
      "winter, clear bright sky, festive decorations still up, New Year preparations, champagne bottles visible, party atmosphere building up, end of year vibes, people preparing celebrations",
      "New Year's Eve midnight, spectacular fireworks over Fourviere, colorful explosions in clear night sky, golden sparkles, confetti falling, champagne celebration, crowds cheering, Bonne Annee banners, magical night">>,
    <<"14_juillet",
      "summer, bright sunny day, clear blue sky, French tricolor flags bleu blanc rouge everywhere, Bastille Day celebration, military parade atmosphere, patriotic decorations, festive national holiday",
      "Bastille Day night, spectacular fireworks in blue white red colors, French flag colors illuminating the sky over Lyon, tricolor lights on buildings, national celebration, clear summer night, crowds watching fireworks">>,
    <<"halloween",
      "late autumn, overcast mysterious sky with dramatic clouds, orange and brown fall colors, Halloween decorations, carved pumpkins on doorsteps, spider webs, eerie but playful atmosphere, bare trees",
      "Halloween night, full moon in clear dark sky, spooky orange glow from jack-o-lanterns, mysterious fog in streets, bats silhouettes, purple and orange lights, haunted atmosphere but whimsical">>,
    <<"saint_valentin",
      "mid february, soft romantic winter light, clear pale blue sky, Valentine's Day decorations on streets, red and pink heart garlands hanging between buildings, heart-shaped balloons tied to lampposts, flower shop displays with red roses, no people close-up, romantic city atmosphere, soft warm feeling",
      "Valentine's night, clear starry sky with soft pink hue, romantic pink and red fairy lights on bridges over Saone river, heart-shaped light decorations on buildings, warm glowing restaurant windows in distance, rose petals on ground, love atmosphere, no people close-up">>
  >>

\* ---- Lyon catalog: the buttons declared by create_buttons ----

\* (season prompt, season file tag) columns of seasons.
seasons ==
  <<
    <<"spring, light green trees, pink cherry blossoms, flowers", "spring">>,
    <<"summer, vibrant dark green trees, blue sky", "summer">>,
    <<"autumn, orange red yellow trees, fall foliage", "autumn">>,
    <<"winter, naked trees, brown branches", "winter">>
  >>

\* (time prompt, time file tag) columns of times.
times ==
  <<
    <<"bright sunlight, clear blue sky, sharp shadows", "day">>,
    <<"golden hour sunset, warm orange sky", "golden">>,
    <<"night time, dark blue sky, street lights glowing", "night">>
  >>

snow_p == "heavy snow covering the city, white roof tops, frozen river, winter"

\* Group A: one button per season and time, in loop order.
lyon_buttons_A ==
  Flatten([s \in 1..Len(seasons) |->
    [t \in 1..Len(times) |->
      <<"A_" \o seasons[s][2] \o "_" \o times[t][2] \o ".png",
        seasons[s][1] \o ", " \o times[t][1]>>]])

\* Group B: a day and a night button per season.
lyon_buttons_B ==
  Flatten([s \in 1..Len(seasons) |->
    << <<"B_" \o seasons[s][2] \o "_grey_day.png",
         seasons[s][1] \o ", overcast grey sky, flat lighting">>,
       <<"B_" \o seasons[s][2] \o "_grey_night.png",
         seasons[s][1] \o ", night, cloudy sky">> >>])

\* Group C: a day and a night button per season.
lyon_buttons_C ==
  Flatten([s \in 1..Len(seasons) |->
    << <<"C_" \o seasons[s][2] \o "_rain_day.png",
         seasons[s][1] \o ", rainy weather, wet ground reflections">>,
       <<"C_" \o seasons[s][2] \o "_rain_night.png",
         seasons[s][1] \o ", rainy night, wet streets">> >>])

\* Group D: three snow buttons, then one storm button per season.
lyon_buttons_D ==
  << <<"D_snow_day.png", snow_p \o ", daylight">>,
     <<"D_snow_golden.png", snow_p \o ", sunset light">>,
     <<"D_snow_night.png", snow_p \o ", night time">> >>
  \o [s \in 1..Len(seasons) |->
       <<"E_storm_" \o seasons[s][2] \o ".png",
         seasons[s][1] \o ", thunderstorm, lightning, dark sky">>]

\* Group F: a day and a night button per event.
lyon_buttons_F ==
  Flatten([e \in 1..Len(lyon_easter_eggs) |->
    << <<"F_" \o lyon_easter_eggs[e][1] \o "_day.png", lyon_easter_eggs[e][2]>>,
       <<"F_" \o lyon_easter_eggs[e][1] \o "_night.png", lyon_easter_eggs[e][3]>> >>])

\* Every (filename, prompt_add) pair bound to a Lyon button, in creation order.
lyon_buttons ==
  lyon_buttons_A \o lyon_buttons_B \o lyon_buttons_C \o lyon_buttons_D
    \o lyon_buttons_F

\* ---------------------------------------------------------------------
\* Program texts
\* ---------------------------------------------------------------------

Apps == {"incity", "lyon"}

\* The (filename, prompt_add) pairs of the running generator's task buttons.
Buttons(a) == IF a = "incity" THEN incity_buttons ELSE lyon_buttons

\* os.path.join(os.getcwd(), <name>): paths are kept relative to the cwd.
output_dir(a) == IF a = "incity" THEN "output_incity" ELSE "output_lyon_gemini3"

\* final_path with the filename argument ignored.
final_path_fixed_name(a, filename) == output_dir(a) \o "/" \o "output.png"

final_path(a, filename) == output_dir(a) \o "/" \o filename

\* incity_base_prompt with the fragment moved behind the preservation text.
incity_base_prompt_fragment_last(prompt_details) ==
  "Using the provided image of the Incity tower in Lyon, modify ONLY the atmosphere and lighting. "
  \o "CRITICAL: Keep the EXACT same tower geometry, proportions, camera angle, and claymorphism 3D style. "
  \o "The tower structure, windows pattern, and architectural details must remain IDENTICAL. "
  \o "Only change: sky color, lighting direction, weather effects, and LED colors on the tower facade. "
  \o prompt_details \o "."

incity_base_prompt(prompt_details) ==
  "Using the provided image of the Incity tower in Lyon, modify ONLY the atmosphere and lighting. "
  \o prompt_details \o ". "
  \o "CRITICAL: Keep the EXACT same tower geometry, proportions, camera angle, and claymorphism 3D style. "
  \o "The tower structure, windows pattern, and architectural details must remain IDENTICAL. "
  \o "Only change: sky color, lighting direction, weather effects, and LED colors on the tower facade."

\* lyon_base_prompt with its last sentence lost.
lyon_base_prompt_truncated(prompt_details) ==
  "Using the provided image of Lyon city, modify the scene to match this weather condition: "
  \o prompt_details \o ". "
  \o "Keep the exact same buildings geometry, camera angle, and claymorphism style. "

lyon_base_prompt(prompt_details) ==
  "Using the provided image of Lyon city, modify the scene to match this weather condition: "
  \o prompt_details \o ". "
  \o "Keep the exact same buildings geometry, camera angle, and claymorphism style. "
  \o "Only change the lighting, sky, ground texture, and foliage colors."

base_prompt(a, prompt_details) ==
  IF a = "incity" THEN incity_base_prompt(prompt_details)
  ELSE lyon_base_prompt(prompt_details)

\* The messages passed to log(). Texts are kept in ASCII: the pictographs
\* that open the Lyon messages are written as bracketed tags and accented
\* letters without their accent, here and in the catalogs.
MsgReady(a) ==
  IF a = "incity"
  THEN <<"Systeme pret.", "Charger incity.png comme reference.">>
  ELSE <<"Systeme pret. SDK 'google-genai' charge.",
         "En attente de l'image de reference...">>

MsgLoaded(name) == "Image chargee : " \o name

MsgLoadError(e) == "ERREUR CHARGEMENT: " \o e

MsgClientError(a, e) ==
  IF a = "incity" THEN "Erreur Client: " \o e ELSE "[x] Erreur Client: " \o e

MsgWorking(a, filename) ==
  IF a = "incity" THEN "Generation: " \o filename \o "..."
  ELSE "[~] Gemini 3 Pro travaille sur : " \o filename \o "..."

MsgOk(a, filename) ==
  IF a = "incity" THEN "OK: " \o filename
  ELSE "[v] SUCCES : " \o filename \o " sauvegarde (2K) !"

MsgNoImage(a, filename) ==
  IF a = "incity" THEN "Pas d'image retournee pour " \o filename
  ELSE "[!] API a repondu mais pas d'image. Verifiez la console."

MsgApiError(a, e) ==
  IF a = "incity" THEN "ERREUR: " \o e ELSE "[x] ERREUR API : " \o e

\* log(message): the text inserted at the end of the log box.
LogText(message) == "> " \o message \o "\n"

\* ---------------------------------------------------------------------
\* The environment: what the user, the file system, the SDK and the
\* service may answer
\* ---------------------------------------------------------------------

\* Paths the file picker may return.
PickableFiles == {"/photos/incity.png", "/photos/lyon.jpg"}

\* Texts the user may leave in the credential field.
EntryValues == {"", "  ", "key-1", " key-2 "}

\* str(e) of the exceptions the collaborators raise.
ErrOpen == "cannot identify image file"
ErrPreview == "image preview failed"
ErrClient == "invalid client configuration"
ErrAdapter == "503 UNAVAILABLE"
ErrWrite == "[Errno 13] Permission denied"

\* Image.open(file_path).convert('RGB')
Decode(file_path) == "RGB(" \o file_path \o ")"

\* os.path.basename
RECURSIVE basename(_)
basename(p) ==
  LET i == Find(p, "/") IN
    IF i = 0 THEN p ELSE basename(SubSeq(p, i + 1, Len(p)))

\* The image bytes the service returns in part i of its answer to thread t.
ImageBytes(t, i) == "PNG-" \o ToString(t) \o "-" \o ToString(i)

b64encode(bytes) == "b64:" \o bytes

b64decode(str) == SubSeq(str, 5, Len(str))

\* What a response part may be: no inline data, inline data held as bytes, or
\* inline data held as a base64 str.
PartKinds == {"text", "bytes", "str"}

\* What the as_image helper may do for a part: it is unavailable (the
\* attribute is absent, or as_image or its save raises), or it saves the image.
HelperOutcomes == {"unavailable", "saves"}

\* ---------------------------------------------------------------------
\* State
\* ---------------------------------------------------------------------

VARIABLES
  app,                   \* which generator is running
  reference_image_path,  \* self.reference_image_path
  pil_image,             \* self.pil_image
  api_entry,             \* text of self.api_entry
  log_box,               \* texts inserted into self.log_box, in order
  dir_exists,            \* whether the output directory exists
  files,                 \* the <<path, content>> pairs of the files on disk
  threads,               \* the task threads started so far
  adapter_calls,         \* generate_content calls made so far
  loads,                 \* load_image runs that got past the file picker
  last                   \* what the most recent button handler did

vars == <<app, reference_image_path, pil_image, api_entry, log_box,
          dir_exists, files, threads, adapter_calls, loads, last>>

NoLast == [op |-> "none", dialogs |-> 0, started |-> 0]

InitFor(a) ==
  /\ app = a
  /\ reference_image_path = None
  /\ pil_image = None
  /\ api_entry = ""
  /\ log_box = [i \in 1..Len(MsgReady(a)) |-> LogText(MsgReady(a)[i])]
  /\ dir_exists = FALSE
  /\ files = {}
  /\ threads = <<>>
  /\ adapter_calls = 0
  /\ loads = 0
  /\ last = NoLast

Init == \E a \in Apps : InitFor(a)

\* ---------------------------------------------------------------------
\* Handlers of the GUI thread
\* ---------------------------------------------------------------------

\* What a handler leaves in `last`: its name, the error dialogs it showed
\* and the threads it started.
Did(op, dialogs, started) ==
  [op |-> op, dialogs |-> dialogs, started |-> started]

\* The user edits the credential field.
EditEntry(text) ==
  /\ text # api_entry
  /\ api_entry' = text
  /\ UNCHANGED <<app, reference_image_path, pil_image, log_box, dir_exists,
                 files, threads, adapter_calls, loads, last>>

\* load_image with the path assigned before the test of the picker's answer:
\* a cancelled picker stores its empty answer as the reference path.
load_image_cancel_stores_answer(outcome, file_path) ==
  /\ \/ /\ outcome = "cancel"
        /\ reference_image_path' = ""
        /\ UNCHANGED <<pil_image, log_box, loads>>
     \/ /\ outcome = "open_raises"
        /\ loads < MaxLoads
        /\ reference_image_path' = file_path
        /\ log_box' = Append(log_box, LogText(MsgLoadError(ErrOpen)))
        /\ loads' = loads + 1
        /\ UNCHANGED pil_image
     \/ /\ outcome = "preview_raises"
        /\ loads < MaxLoads
        /\ reference_image_path' = file_path
        /\ pil_image' = Decode(file_path)
        /\ log_box' = Append(log_box, LogText(MsgLoadError(ErrPreview)))
        /\ loads' = loads + 1
     \/ /\ outcome = "ok"
        /\ loads < MaxLoads
        /\ reference_image_path' = file_path
        /\ pil_image' = Decode(file_path)
        /\ log_box' = Append(log_box, LogText(MsgLoaded(basename(file_path))))
        /\ loads' = loads + 1
  /\ last' = Did("load_image", 0, 0)
  /\ UNCHANGED <<app, api_entry, dir_exists, files, threads, adapter_calls>>

\* load_image: outcome says how far the handler gets.
load_image(outcome, file_path) ==
  /\ \/ /\ outcome = "cancel"
        /\ UNCHANGED <<reference_image_path, pil_image, log_box, loads>>
     \/ /\ outcome = "open_raises"
        /\ loads < MaxLoads
        /\ reference_image_path' = file_path
        /\ log_box' = Append(log_box, LogText(MsgLoadError(ErrOpen)))
        /\ loads' = loads + 1
        /\ UNCHANGED pil_image
     \/ /\ outcome = "preview_raises"
        /\ loads < MaxLoads
        /\ reference_image_path' = file_path
        /\ pil_image' = Decode(file_path)
        /\ log_box' = Append(log_box, LogText(MsgLoadError(ErrPreview)))
        /\ loads' = loads + 1
     \/ /\ outcome = "ok"
        /\ loads < MaxLoads
        /\ reference_image_path' = file_path
        /\ pil_image' = Decode(file_path)
        /\ log_box' = Append(log_box, LogText(MsgLoaded(basename(file_path))))
        /\ loads' = loads + 1
  /\ last' = Did("load_image", 0, 0)
  /\ UNCHANGED <<app, api_entry, dir_exists, files, threads, adapter_calls>>

\* The two checks every dispatch handler starts with.
Precheck ==
  IF reference_image_path = None THEN "no_image"
  ELSE IF strip(api_entry) = "" THEN "no_key"
  ELSE "ok"

\* threading.Thread(target=self.generate_task, args=(filename, prompt)):
\* the thread's locals are unset until generate_task assigns them.
\* image_at_start remembers the session image of the moment of the dispatch.
NewThread(filename, prompt_details, batch) ==
  [filename |-> filename, prompt_details |-> prompt_details, batch |-> batch,
   image_at_start |-> pil_image,
   pc |-> "start", api_key |-> None, nparts |-> 0, idx |-> 0,
   image_saved |-> FALSE,
   request |-> [prompt |-> None, image |-> None], returned |-> <<>>,
   writes |-> <<>>, logged |-> <<>>, result |-> None]

\* Number of dispatch operations that started threads so far.
NDispatch == IF threads = <<>> THEN 0 ELSE threads[Len(threads)].batch

\* for filename, prompt in configs: Thread(...).start()
StartAll(configs) ==
  [i \in 1..Len(configs) |->
    NewThread(configs[i][1], configs[i][2], NDispatch + 1)]

\* Room left by the exploration limits for n more threads.
CanStart(n, cap) ==
  /\ Len(threads) + n <= cap.threads
  /\ NDispatch < cap.dispatches

\* What a handler does: dialogs shown, messages logged, tasks started.
\* A refusal that also writes to the log box.
Shows_and_logs(n) ==
  [dialogs |-> n, lines |-> <<"Erreur: generation impossible">>, tasks |-> <<>>]

Shows(n) == [dialogs |-> n, lines |-> <<>>, tasks |-> <<>>]

Starts(lines, tasks) == [dialogs |-> 0, lines |-> lines, tasks |-> tasks]

Then(e1, e2) ==
  [dialogs |-> e1.dialogs + e2.dialogs, lines |-> e1.lines \o e2.lines,
   tasks |-> e1.tasks \o e2.tasks]

trigger_generation_effect(filename, prompt_add) ==
  IF Precheck # "ok" THEN Shows(1)
  ELSE Starts(<<>>, << <<filename, prompt_add>> >>)

generate_all_day_effect ==
  IF Precheck # "ok" THEN Shows(1)
  ELSE Starts(<<"Generation batch METEO JOUR (7 images)...">>, day_configs)

generate_all_easter_day_effect ==
  IF Precheck # "ok" THEN Shows(1)
  ELSE Starts(<<"Generation batch EASTER EGGS JOUR (6 images)...">>,
              easter_day_configs)

generate_all_easter_night_effect ==
  IF Precheck # "ok" THEN Shows(1)
  ELSE Starts(<<"Generation batch EASTER EGGS NUIT (6 images)...">>,
              easter_night_configs)

generate_all_night_effect ==
  IF Precheck # "ok" THEN Shows(1)
  ELSE Starts(<<"Generation batch NUIT LED (5 images)...">>, night_configs)

generate_all_fullmoon_effect ==
  IF Precheck # "ok" THEN Shows(1)
  ELSE Starts(<<"Generation batch PLEINE LUNE (5 images)...">>,
              fullmoon_configs)

\* generate_all_everything with the call of generate_all_fullmoon forgotten.
generate_all_everything_effect_short ==
  IF Precheck # "ok" THEN Shows(1)
  ELSE Then(Starts(<<"Generation TOTALE (29 images)...">>, <<>>),
       Then(generate_all_day_effect,
       Then(generate_all_easter_day_effect,
       Then(generate_all_easter_night_effect,
            generate_all_night_effect))))

\* generate_all_everything runs the five group handlers one after the other
\* on the GUI thread; each of them repeats the two checks.
generate_all_everything_effect ==
  IF Precheck # "ok" THEN Shows(1)
  ELSE Then(Starts(<<"Generation TOTALE (29 images)...">>, <<>>),
       Then(generate_all_day_effect,
       Then(generate_all_easter_day_effect,
       Then(generate_all_easter_night_effect,
       Then(generate_all_night_effect,
            generate_all_fullmoon_effect)))))

\* A dispatch handler runs on the GUI thread from its first check to its
\* last Thread.start().
Handle(op, effect, cap) ==
  /\ effect.tasks # <<>> => CanStart(Len(effect.tasks), cap)
  /\ log_box' = log_box \o [i \in 1..Len(effect.lines) |-> LogText(effect.lines[i])]
  /\ threads' = threads \o StartAll(effect.tasks)
  /\ last' = Did(op, effect.dialogs, Len(effect.tasks))
  /\ UNCHANGED <<app, reference_image_path, pil_image, api_entry, dir_exists,
                 files, adapter_calls, loads>>

trigger_generation(filename, prompt_add, cap) ==
  Handle("trigger_generation", trigger_generation_effect(filename, prompt_add), cap)

generate_all_day(cap) ==
  app = "incity" /\ Handle("generate_all_day", generate_all_day_effect, cap)

generate_all_easter_day(cap) ==
  app = "incity"
    /\ Handle("generate_all_easter_day", generate_all_easter_day_effect, cap)

generate_all_easter_night(cap) ==
  app = "incity"
    /\ Handle("generate_all_easter_night", generate_all_easter_night_effect, cap)

generate_all_night(cap) ==
  app = "incity" /\ Handle("generate_all_night", generate_all_night_effect, cap)

generate_all_fullmoon(cap) ==
  app = "incity"
    /\ Handle("generate_all_fullmoon", generate_all_fullmoon_effect, cap)

generate_all_everything(cap) ==
  app = "incity"
    /\ Handle("generate_all_everything", generate_all_everything_effect, cap)

\* ---------------------------------------------------------------------
\* generate_task, run by each task thread
\* ---------------------------------------------------------------------

\* open(path, "wb").write(data), or Image.save(path): the file is replaced.
WriteFile(fs, path, data) ==
  {f \in fs : f[1] # path} \cup {<<path, data>>}

FileContent(fs, path) ==
  IF \E f \in fs : f[1] = path
  THEN (CHOOSE f \in fs : f[1] = path)[2]
  ELSE None

\* Thread t moves on: `changes` gives the fields that change.
Update(t, changes) ==
  [threads EXCEPT ![t] =
    [f \in DOMAIN threads[t] |->
      IF f \in DOMAIN changes THEN changes[f] ELSE threads[t][f]]]

\* self.log(message) called by thread t.
Logs(t, message) ==
  log_box' = Append(log_box, LogText(message))

\* generate_task returns (or is left by an exception): its locals are gone.
Returned(result) ==
  [pc |-> IF result = "raised" THEN "raised" ELSE "done", result |-> result,
   api_key |-> None, nparts |-> 0, idx |-> 0, image_saved |-> FALSE]

\* api_key = self.api_entry.get().strip()
generate_task_read_key(t) ==
  /\ threads[t].pc = "start"
  /\ threads' = Update(t, [pc |-> "client", api_key |-> strip(api_entry)])
  /\ UNCHANGED <<app, reference_image_path, pil_image, api_entry, log_box,
                 dir_exists, files, adapter_calls, loads, last>>

\* The progress entry logged before the client is built: a failing client
\* then leaves two entries.
generate_task_client_progress_first(t, ok) ==
  LET working == MsgWorking(app, threads[t].filename)
      entries == IF ok THEN <<working>>
                 ELSE <<working, MsgClientError(app, ErrClient)>>
      step == IF ok THEN [pc |-> "makedirs"] ELSE Returned("client_error")
  IN
  /\ threads[t].pc = "client"
  /\ log_box' = log_box \o [i \in 1..Len(entries) |-> LogText(entries[i])]
  /\ threads' = Update(t, step @@ [logged |-> threads[t].logged \o entries])
  /\ UNCHANGED <<app, reference_image_path, pil_image, api_entry,
                 dir_exists, files, adapter_calls, loads, last>>

\* client = genai.Client(api_key=api_key) inside its own try; when it raises
\* the task logs and returns, otherwise base_prompt is built and
\* self.log(f"Generation: {filename}...") follows.
generate_task_client(t, ok) ==
  LET message == IF ok THEN MsgWorking(app, threads[t].filename)
                 ELSE MsgClientError(app, ErrClient)
      step == IF ok THEN [pc |-> "makedirs"] ELSE Returned("client_error")
  IN
  /\ threads[t].pc = "client"
  /\ Logs(t, message)
  /\ threads' = Update(t, step @@ [logged |-> Append(threads[t].logged, message)])
  /\ UNCHANGED <<app, reference_image_path, pil_image, api_entry,
                 dir_exists, files, adapter_calls, loads, last>>

\* os.makedirs(output_dir) without exist_ok: it raises when the directory is
\* already there.
generate_task_makedirs_no_exist_ok(t, ok) ==
  /\ threads[t].pc = "makedirs"
  /\ IF ok /\ ~dir_exists
     THEN /\ dir_exists' = TRUE
          /\ threads' = Update(t, [pc |-> "call"])
     ELSE /\ UNCHANGED dir_exists
          /\ threads' = Update(t, Returned("raised"))
  /\ UNCHANGED <<app, reference_image_path, pil_image, api_entry, log_box,
                 files, adapter_calls, loads, last>>

\* os.makedirs(output_dir, exist_ok=True), outside every try: when it raises
\* the exception leaves generate_task.
generate_task_makedirs(t, ok) ==
  /\ threads[t].pc = "makedirs"
  /\ IF ok \/ dir_exists
     THEN /\ dir_exists' = TRUE
          /\ threads' = Update(t, [pc |-> "call"])
     ELSE /\ UNCHANGED dir_exists
          /\ threads' = Update(t, Returned("raised"))
  /\ UNCHANGED <<app, reference_image_path, pil_image, api_entry, log_box,
                 files, adapter_calls, loads, last>>

\* generate_content entered only while no other thread is in its adapter
\* call, as a lock around the call would have it.
generate_task_call_one_at_a_time(t) ==
  /\ threads[t].pc = "call"
  /\ \A u \in 1..Len(threads) : threads[u].pc # "await"
  /\ adapter_calls' = adapter_calls + 1
  /\ threads' = Update(t, [pc |-> "await",
       request |-> [prompt |-> base_prompt(app, threads[t].prompt_details),
                    image |-> pil_image]])
  /\ UNCHANGED <<app, reference_image_path, pil_image, api_entry, log_box,
                 dir_exists, files, loads, last>>

\* client.models.generate_content(contents=[base_prompt, self.pil_image], ...)
\* is entered: the request leaves with the session image of this moment.
generate_task_call(t) ==
  /\ threads[t].pc = "call"
  /\ adapter_calls' = adapter_calls + 1
  /\ threads' = Update(t, [pc |-> "await",
       request |-> [prompt |-> base_prompt(app, threads[t].prompt_details),
                    image |-> pil_image]])
  /\ UNCHANGED <<app, reference_image_path, pil_image, api_entry, log_box,
                 dir_exists, files, loads, last>>

\* generate_content raises and the task logs and tries the call again.
generate_task_call_raises_retry(t) ==
  /\ threads[t].pc = "await"
  /\ Logs(t, MsgApiError(app, ErrAdapter))
  /\ threads' = Update(t, [pc |-> "call",
       logged |-> Append(threads[t].logged, MsgApiError(app, ErrAdapter))])
  /\ UNCHANGED <<app, reference_image_path, pil_image, api_entry,
                 dir_exists, files, adapter_calls, loads, last>>

\* generate_content raises: except Exception as e: self.log(f"ERREUR: {e}")
generate_task_call_raises(t) ==
  /\ threads[t].pc = "await"
  /\ Logs(t, MsgApiError(app, ErrAdapter))
  /\ threads' = Update(t, Returned("api_error") @@
       [logged |-> Append(threads[t].logged, MsgApiError(app, ErrAdapter))])
  /\ UNCHANGED <<app, reference_image_path, pil_image, api_entry,
                 dir_exists, files, adapter_calls, loads, last>>

\* generate_content returns and image_saved starts as True.
generate_task_call_returns_saved_at_start(t, n) ==
  /\ threads[t].pc = "await"
  /\ threads' = Update(t, IF n = 0
       THEN [pc |-> "final", image_saved |-> TRUE]
       ELSE [pc |-> "parts", nparts |-> n, idx |-> 1, image_saved |-> TRUE])
  /\ UNCHANGED <<app, reference_image_path, pil_image, api_entry, log_box,
                 dir_exists, files, adapter_calls, loads, last>>

\* generate_content returns a response of n parts (none when response.parts
\* is None or empty); image_saved = False.
generate_task_call_returns(t, n) ==
  /\ threads[t].pc = "await"
  /\ threads' = Update(t, IF n = 0
       THEN [pc |-> "final", image_saved |-> FALSE]
       ELSE [pc |-> "parts", nparts |-> n, idx |-> 1, image_saved |-> FALSE])
  /\ UNCHANGED <<app, reference_image_path, pil_image, api_entry, log_box,
                 dir_exists, files, adapter_calls, loads, last>>

\* One iteration of `for part in response.parts`.
generate_task_part(t, kind, helper, write_ok) ==
  LET th == threads[t]
      path == final_path(app, th.filename)
      img_bytes == IF kind = "str" THEN b64encode(ImageBytes(t, th.idx))
                   ELSE ImageBytes(t, th.idx)
      img_data == IF kind = "str" THEN b64decode(img_bytes) ELSE img_bytes
      next == IF th.idx < th.nparts
              THEN [pc |-> "parts", idx |-> th.idx + 1]
              ELSE [pc |-> "final", nparts |-> 0, idx |-> 0]
      seen == [returned |-> Append(th.returned, ImageBytes(t, th.idx))]
  IN
  /\ th.pc = "parts"
  \* the helper belongs to the SDK versions whose inline data are bytes
  /\ helper = "saves" => kind = "bytes"
  /\ kind = "text" => helper = "unavailable" /\ write_ok
  /\ (kind # "text" /\ (helper = "saves" \/ th.image_saved)) => write_ok
  /\ IF kind = "text"
     THEN \* if part.inline_data: is false
          /\ threads' = Update(t, next)
          /\ UNCHANGED <<files, log_box>>
     ELSE IF helper = "saves"
     THEN \* img = part.as_image(); img.save(final_path); break
          /\ files' = WriteFile(files, path, img_bytes)
          /\ threads' = Update(t, seen @@ [pc |-> "final", nparts |-> 0, idx |-> 0,
               image_saved |-> TRUE,
               writes |-> Append(th.writes, img_bytes)])
          /\ UNCHANGED log_box
     ELSE IF th.image_saved
     THEN \* except: pass, and `if not image_saved` is false
          /\ threads' = Update(t, seen @@ next)
          /\ UNCHANGED <<files, log_box>>
     ELSE IF write_ok
     THEN \* the raw-bytes fallback; no break follows it
          /\ files' = WriteFile(files, path, img_data)
          /\ threads' = Update(t, seen @@ next @@ [image_saved |-> TRUE,
               writes |-> Append(th.writes, img_data)])
          /\ UNCHANGED log_box
     ELSE \* open() raises: the outer except logs it
          /\ Logs(t, MsgApiError(app, ErrWrite))
          /\ threads' = Update(t, seen @@ Returned("write_error") @@
               [logged |-> Append(th.logged, MsgApiError(app, ErrWrite))])
          /\ UNCHANGED files
  /\ UNCHANGED <<app, reference_image_path, pil_image, api_entry,
                 dir_exists, adapter_calls, loads, last>>

\* The last step of a task that waits for the tasks started before it, as
\* a join in start order would have it.
generate_task_final_in_start_order(t) ==
  LET th == threads[t]
      message == IF th.image_saved THEN MsgOk(app, th.filename)
                 ELSE MsgNoImage(app, th.filename)
  IN
  /\ th.pc = "final"
  /\ \A u \in 1..(t - 1) : threads[u].pc \in {"done", "raised"}
  /\ Logs(t, message)
  /\ threads' = Update(t, Returned(IF th.image_saved THEN "ok" ELSE "no_image") @@
       [logged |-> Append(th.logged, message)])
  /\ UNCHANGED <<app, reference_image_path, pil_image, api_entry,
                 dir_exists, files, adapter_calls, loads, last>>

\* if image_saved: self.log(f"OK: {filename}") else: self.log("Pas d'image ...")
generate_task_final(t) ==
  LET th == threads[t]
      message == IF th.image_saved THEN MsgOk(app, th.filename)
                 ELSE MsgNoImage(app, th.filename)
  IN
  /\ th.pc = "final"
  /\ Logs(t, message)
  /\ threads' = Update(t, Returned(IF th.image_saved THEN "ok" ELSE "no_image") @@
       [logged |-> Append(th.logged, message)])
  /\ UNCHANGED <<app, reference_image_path, pil_image, api_entry,
                 dir_exists, files, adapter_calls, loads, last>>

\* ---------------------------------------------------------------------
\* Specifications
\* ---------------------------------------------------------------------

\* Limits of SpecTasks: MaxThreads threads in all.
TaskCap == [threads |-> MaxThreads, dispatches |-> MaxThreads]

\* Limits of Spec and SpecDispatch: MaxDispatch dispatches, of any size.
DispatchCap ==
  [threads |-> MaxDispatch * (Len(incity_buttons) + Len(lyon_buttons)),
   dispatches |-> MaxDispatch]

\* Limits of SpecCatalog: a single task.
CatalogCap == [threads |-> 1, dispatches |-> 1]

LoadStep ==
  \E outcome \in {"cancel", "open_raises", "preview_raises", "ok"},
     file_path \in PickableFiles : load_image(outcome, file_path)

EditStep == \E text \in EntryValues : EditEntry(text)

\* Place in the catalog of the button whose thread was started last, 0 when
\* no thread was started.
LastPressed ==
  IF threads = <<>> THEN 0
  ELSE CHOOSE i \in 1..Len(Buttons(app)) :
         Buttons(app)[i][1] = threads[Len(threads)].filename

\* The user presses one of the first MaxButtons task buttons, going down the
\* window as a batch goes down its list: never a button above the last one
\* that started a thread.
TaskButtonStep ==
  \E i \in 1..MaxButtons :
    /\ i <= Len(Buttons(app))
    /\ LastPressed <= i
    /\ trigger_generation(Buttons(app)[i][1], Buttons(app)[i][2], TaskCap)

\* The user presses one of the first MaxButtons task buttons.
FirstTaskButtonStep ==
  \E i \in 1..MaxButtons :
    /\ i <= Len(Buttons(app))
    /\ trigger_generation(Buttons(app)[i][1], Buttons(app)[i][2], DispatchCap)

\* The user presses any task button.
AnyTaskButtonStep ==
  \E i \in 1..Len(Buttons(app)) :
    trigger_generation(Buttons(app)[i][1], Buttons(app)[i][2], DispatchCap)

\* The user presses any task button, once.
OneTaskButtonStep ==
  \E i \in 1..Len(Buttons(app)) :
    trigger_generation(Buttons(app)[i][1], Buttons(app)[i][2], CatalogCap)

AllDayStep == generate_all_day(DispatchCap)

AllEasterDayStep == generate_all_easter_day(DispatchCap)

AllEasterNightStep == generate_all_easter_night(DispatchCap)

AllNightStep == generate_all_night(DispatchCap)

AllFullmoonStep == generate_all_fullmoon(DispatchCap)

AllEverythingStep == generate_all_everything(DispatchCap)

ReadKeyStep == \E t \in 1..Len(threads) : generate_task_read_key(t)

ClientStep ==
  \E t \in 1..Len(threads), ok \in BOOLEAN : generate_task_client(t, ok)

MakedirsStep ==
  \E t \in 1..Len(threads), ok \in BOOLEAN : generate_task_makedirs(t, ok)

CallStep == \E t \in 1..Len(threads) : generate_task_call(t)

CallRaisesStep == \E t \in 1..Len(threads) : generate_task_call_raises(t)

CallReturnsStep ==
  \E t \in 1..Len(threads), n \in 0..MaxParts : generate_task_call_returns(t, n)

BatchCallReturnsStep ==
  \E t \in 1..Len(threads), n \in 0..MaxBatchParts :
    generate_task_call_returns(t, n)

PartStep ==
  \E t \in 1..Len(threads), kind \in PartKinds, helper \in HelperOutcomes,
     write_ok \in BOOLEAN : generate_task_part(t, kind, helper, write_ok)

FinalStep == \E t \in 1..Len(threads) : generate_task_final(t)

\* The whole program: the GUI thread and the task threads.
Next ==
  \/ LoadStep
  \/ EditStep
  \/ AnyTaskButtonStep
  \/ AllDayStep
  \/ AllEasterDayStep
  \/ AllEasterNightStep
  \/ AllNightStep
  \/ AllFullmoonStep
  \/ AllEverythingStep
  \/ ReadKeyStep
  \/ ClientStep
  \/ MakedirsStep
  \/ CallStep
  \/ CallRaisesStep
  \/ CallReturnsStep
  \/ PartStep
  \/ FinalStep

Spec == Init /\ [][Next]_vars

\* The GUI thread alone, from the constructed window, with every batch button
\* and the first MaxButtons task buttons: the threads it starts are not
\* scheduled.
NextDispatch ==
  \/ LoadStep
  \/ EditStep
  \/ FirstTaskButtonStep
  \/ AllDayStep
  \/ AllEasterDayStep
  \/ AllEasterNightStep
  \/ AllNightStep
  \/ AllFullmoonStep
  \/ AllEverythingStep

SpecDispatch == Init /\ [][NextDispatch]_vars

\* What the user has typed in the credential field of a ready session.
ReadyEntry == " key-2 "

\* A session in which the user has loaded a reference image and typed a
\* credential, as a dispatch that passes its checks finds it; loads counts
\* the load_image operations from here on.
InitReadyFor(a) ==
  \E file_path \in {"/photos/incity.png"} :
    /\ app = a
    /\ reference_image_path = file_path
    /\ pil_image = Decode(file_path)
    /\ api_entry = ReadyEntry
    /\ log_box = [i \in 1..Len(MsgReady(a)) |-> LogText(MsgReady(a)[i])]
                   \o <<LogText(MsgLoaded(basename(file_path)))>>
    /\ dir_exists = FALSE
    /\ files = {}
    /\ threads = <<>>
    /\ adapter_calls = 0
    /\ loads = 0
    /\ last = Did("load_image", 0, 0)

InitReady == \E a \in Apps : InitReadyFor(a)

\* The task threads of a few button presses in a ready session of the Incity
\* generator, the one that has batches.
NextTasks ==
  \/ TaskButtonStep
  \/ ReadKeyStep
  \/ ClientStep
  \/ MakedirsStep
  \/ CallStep
  \/ CallRaisesStep
  \/ BatchCallReturnsStep
  \/ PartStep
  \/ FinalStep

SpecTasks == InitReadyFor("incity") /\ [][NextTasks]_vars

\* The steps thread t can take in SpecTasks.
TaskThreadStep(t) ==
  /\ t <= Len(threads)
  /\ \/ generate_task_read_key(t)
     \/ \E ok \in BOOLEAN : generate_task_client(t, ok)
     \/ \E ok \in BOOLEAN : generate_task_makedirs(t, ok)
     \/ generate_task_call(t)
     \/ generate_task_call_raises(t)
     \/ \E n \in 0..MaxBatchParts : generate_task_call_returns(t, n)
     \/ \E kind \in PartKinds, helper \in HelperOutcomes, write_ok \in BOOLEAN :
          generate_task_part(t, kind, helper, write_ok)
     \/ generate_task_final(t)

\* SpecTasks with a fair scheduler and an adapter that answers every call:
\* a thread that can take a step eventually takes one.
SpecTasksFair ==
  SpecTasks /\ \A t \in 1..MaxThreads : WF_vars(TaskThreadStep(t))

\* One task of either catalog, from any of its buttons, run to its end.
NextCatalog ==
  \/ OneTaskButtonStep
  \/ ReadKeyStep
  \/ ClientStep
  \/ MakedirsStep
  \/ CallStep
  \/ CallRaisesStep
  \/ CallReturnsStep
  \/ PartStep
  \/ FinalStep

SpecCatalog == InitReady /\ [][NextCatalog]_vars


\* ---------------------------------------------------------------------
\* SpecBlocked: whole batches, every thread taken up to its adapter call
\* ---------------------------------------------------------------------

\* Limits of SpecBlocked: MaxDispatch dispatches, of any size.
BlockedCap ==
  [threads |-> MaxDispatch * Len(incity_buttons), dispatches |-> MaxDispatch]

\* The scheduler of SpecBlocked runs the threads in the order they were
\* started: thread t moves once every thread started before it is blocked in
\* its adapter call. Every client is built, the output directory is created
\* and no adapter call returns.
InTurn(t) ==
  \A u \in 1..(t - 1) : threads[u].pc = "await"

ReadKeyInTurn ==
  \E t \in 1..Len(threads) : InTurn(t) /\ generate_task_read_key(t)

ClientInTurn ==
  \E t \in 1..Len(threads) : InTurn(t) /\ generate_task_client(t, TRUE)

MakedirsInTurn ==
  \E t \in 1..Len(threads) : InTurn(t) /\ generate_task_makedirs(t, TRUE)

CallInTurn ==
  \E t \in 1..Len(threads) : InTurn(t) /\ generate_task_call(t)

BlockedAllDayStep == generate_all_day(BlockedCap)

BlockedAllEasterDayStep == generate_all_easter_day(BlockedCap)

BlockedAllEasterNightStep == generate_all_easter_night(BlockedCap)

BlockedAllNightStep == generate_all_night(BlockedCap)

BlockedAllFullmoonStep == generate_all_fullmoon(BlockedCap)

BlockedAllEverythingStep == generate_all_everything(BlockedCap)

NextBlocked ==
  \/ BlockedAllDayStep
  \/ BlockedAllEasterDayStep
  \/ BlockedAllEasterNightStep
  \/ BlockedAllNightStep
  \/ BlockedAllFullmoonStep
  \/ BlockedAllEverythingStep
  \/ ReadKeyInTurn
  \/ ClientInTurn
  \/ MakedirsInTurn
  \/ CallInTurn

SpecBlocked == InitReadyFor("incity") /\ [][NextBlocked]_vars

\* ---------------------------------------------------------------------
\* SpecSession: one task while the user goes on using the window
\* ---------------------------------------------------------------------

\* The user presses one of the first MaxButtons task buttons, once.
SessionButtonStep ==
  \E i \in 1..MaxButtons :
    /\ i <= Len(Buttons(app))
    /\ trigger_generation(Buttons(app)[i][1], Buttons(app)[i][2], CatalogCap)

\* A ready session in which the user loads images and edits the credential
\* while the thread of one task runs.
NextSession ==
  \/ LoadStep
  \/ EditStep
  \/ SessionButtonStep
  \/ ReadKeyStep
  \/ ClientStep
  \/ MakedirsStep
  \/ CallStep
  \/ CallRaisesStep
  \/ BatchCallReturnsStep
  \/ PartStep
  \/ FinalStep

SpecSession == InitReady /\ [][NextSession]_vars

\* ---------------------------------------------------------------------
\* SpecBatch: one batch, its first threads run in every order
\* ---------------------------------------------------------------------

\* Limits of SpecBatch: a single batch, of any size.
BatchCap == [threads |-> Len(incity_buttons), dispatches |-> 1]

\* The threads the scheduler of SpecBatch has given the processor to: the
\* first pair of the batch, which run in every interleaving. The others are
\* started and wait for the processor.
Running == {t \in 1..Len(threads) : t <= 2}

BatchAllDayStep == generate_all_day(BatchCap)

BatchAllEasterDayStep == generate_all_easter_day(BatchCap)

BatchAllEasterNightStep == generate_all_easter_night(BatchCap)

BatchAllNightStep == generate_all_night(BatchCap)

BatchAllFullmoonStep == generate_all_fullmoon(BatchCap)

BatchAllEverythingStep == generate_all_everything(BatchCap)

RunningReadKeyStep == \E t \in Running : generate_task_read_key(t)

RunningClientStep ==
  \E t \in Running, ok \in BOOLEAN : generate_task_client(t, ok)

RunningMakedirsStep ==
  \E t \in Running, ok \in BOOLEAN : generate_task_makedirs(t, ok)

RunningCallStep == \E t \in Running : generate_task_call(t)

RunningCallRaisesStep == \E t \in Running : generate_task_call_raises(t)

RunningCallReturnsStep ==
  \E t \in Running, n \in 0..MaxBatchParts : generate_task_call_returns(t, n)

RunningPartStep ==
  \E t \in Running, kind \in PartKinds, helper \in HelperOutcomes,
     write_ok \in BOOLEAN : generate_task_part(t, kind, helper, write_ok)

RunningFinalStep == \E t \in Running : generate_task_final(t)

NextBatch ==
  \/ BatchAllDayStep
  \/ BatchAllEasterDayStep
  \/ BatchAllEasterNightStep
  \/ BatchAllNightStep
  \/ BatchAllFullmoonStep
  \/ BatchAllEverythingStep
  \/ RunningReadKeyStep
  \/ RunningClientStep
  \/ RunningMakedirsStep
  \/ RunningCallStep
  \/ RunningCallRaisesStep
  \/ RunningCallReturnsStep
  \/ RunningPartStep
  \/ RunningFinalStep

SpecBatch == InitReadyFor("incity") /\ [][NextBatch]_vars

\* ---------------------------------------------------------------------
\* SpecCredential: the credential field edited behind a dispatched task
\* ---------------------------------------------------------------------

\* The user edits the credential field once a task has been dispatched: the
\* field held ReadyEntry when the dispatch handler checked it.
EditAfterDispatchStep == threads # <<>> /\ EditStep

NextCredential ==
  \/ SessionButtonStep
  \/ EditAfterDispatchStep
  \/ ReadKeyStep
  \/ ClientStep
  \/ MakedirsStep
  \/ CallStep
  \/ CallRaisesStep
  \/ BatchCallReturnsStep
  \/ PartStep
  \/ FinalStep

SpecCredential == InitReady /\ [][NextCredential]_vars
\* ---------------------------------------------------------------------
\* Vocabulary of the properties
\* ---------------------------------------------------------------------

GroupOps ==
  {"generate_all_day", "generate_all_easter_day", "generate_all_easter_night",
   "generate_all_night", "generate_all_fullmoon"}

DispatchOps == GroupOps \cup {"trigger_generation", "generate_all_everything"}

\* This step is one run of a dispatch handler.
DispatchRuns ==
  /\ last'.op \in DispatchOps
  /\ last' # last \/ Len(threads') > Len(threads)

\* The step starts no thread, calls the adapter zero times and shows exactly
\* one error dialog.
RefusesWithOneDialog ==
  /\ threads' = threads
  /\ adapter_calls' = adapter_calls
  /\ last'.dialogs = 1

\* A text that is empty or made of whitespace only.
Blank(text) == \A i \in 1..Len(text) : SubSeq(text, i, i) \in Whitespace

\* The threads started by the most recent handler, and their filenames.
Started == SubSeq(threads, Len(threads) - last.started + 1, Len(threads))

StartedFiles == [i \in 1..Len(Started) |-> Started[i].filename]

NoDuplicates(seq) ==
  \A i, j \in 1..Len(seq) : i # j => seq[i] # seq[j]

Filenames(pairs) == {pairs[i][1] : i \in 1..Len(pairs)}

\* The buttons create_buttons declares in the group of a group handler.
GroupButtons(op) ==
  CASE op = "generate_all_day" -> buttons_day
    [] op = "generate_all_easter_day" -> easter_eggs_day
    [] op = "generate_all_easter_night" -> easter_eggs
    [] op = "generate_all_night" -> buttons_night
    [] op = "generate_all_fullmoon" -> buttons_fullmoon

Threads == 1..Len(threads)

Ended(t) == threads[t].pc \in {"done", "raised"}

\* The adapter call of thread t failed: it raised, or its response carried
\* no image part.
AdapterFailed(t) == threads[t].result \in {"api_error", "no_image"}

Succeeded(t) == threads[t].result = "ok"

IsProgressMessage(m) ==
  \E f \in Filenames(Buttons(app)) : m = MsgWorking(app, f)

IsSuccessMessage(m) ==
  \E f \in Filenames(Buttons(app)) : m = MsgOk(app, f)

\* The entries thread t logged that report a failure.
FailureEntries(t) ==
  {i \in 1..Len(threads[t].logged) :
     /\ ~IsProgressMessage(threads[t].logged[i])
     /\ ~IsSuccessMessage(threads[t].logged[i])}

\* A line of the log box that reports the failure of an adapter call.
IsAdapterFailureLine(line) ==
  \/ StartsWith(line, "> ERREUR: ")
  \/ StartsWith(line, "> Pas d'image retournee pour ")
  \/ StartsWith(line, "> [x] ERREUR API : ")
  \/ StartsWith(line, "> [!] API a repondu mais pas d'image.")

\* The fixed sentence that opens the prompt, and the preservation clauses
\* of each generator's template.
InstructionHead(a) ==
  IF a = "incity"
  THEN "Using the provided image of the Incity tower in Lyon, modify ONLY the atmosphere and lighting. "
  ELSE "Using the provided image of Lyon city, modify the scene to match this weather condition: "

PreservationClauses(a) ==
  IF a = "incity"
  THEN {"Keep the EXACT same tower geometry",
        "camera angle",
        "claymorphism 3D style",
        "Only change: sky color, lighting direction, weather effects, and LED colors on the tower facade."}
  ELSE {"Keep the exact same buildings geometry",
        "camera angle",
        "claymorphism style",
        "Only change the lighting, sky, ground texture, and foliage colors."}

\* The path the catalog filename of a task stands for.
CatalogPath(filename) ==
  (IF app = "incity" THEN "output_incity/" ELSE "output_lyon_gemini3/")
    \o filename

\* Thread t has sent its request to the adapter.
Sent(t) == threads[t].request.prompt # None

\* ---------------------------------------------------------------------
\* Properties
\* ---------------------------------------------------------------------

\* C1: whenever the session holds no loaded reference image, a run of any
\* dispatch handler starts no thread, makes no adapter call and shows exactly
\* one error dialog. The handlers test reference_image_path, which load_image
\* sets before the image is decoded, so this fails after a load whose
\* Image.open raised.
C1_NoImageRefused ==
  [][(pil_image = None /\ DispatchRuns) => RefusesWithOneDialog]_vars

\* C2: whenever a reference image is loaded and the credential field is empty
\* or whitespace only, a run of any dispatch handler starts no thread, makes no
\* adapter call and shows exactly one error dialog.
C2_BlankKeyRefused ==
  [][(pil_image # None /\ Blank(api_entry) /\ DispatchRuns)
       => RefusesWithOneDialog]_vars

\* A dispatch handler has just refused to run for a whitespace-only credential
\* while an image is loaded.
C2_Witness ==
  /\ pil_image # None
  /\ api_entry # "" /\ Blank(api_entry)
  /\ last.op = "generate_all_everything"
  /\ last.dialogs = 1

\* C3: a task whose adapter call returned an image and whose writes did not
\* raise has written exactly once, and what it wrote are the bytes of the
\* image the adapter returned. The raw-bytes fallback has no break, so a
\* response with two image parts can be written twice.
C3_OneWriteOfReturnedBytes ==
  \A t \in Threads :
    Succeeded(t) =>
      /\ Len(threads[t].writes) = 1
      /\ threads[t].writes[1] = threads[t].returned[1]

\* C4: a task whose adapter call failed has written no file and has logged
\* exactly one failure entry, which contains the task's filename. Only the
\* Incity "Pas d'image" message carries the filename.
C4_FailureEntryNamesFile ==
  \A t \in Threads :
    AdapterFailed(t) =>
      /\ threads[t].writes = <<>>
      /\ Cardinality(FailureEntries(t)) = 1
      /\ \A i \in FailureEntries(t) :
           Contains(threads[t].logged[i], threads[t].filename)

\* C5: once every started task has ended, each with a success or an adapter
\* failure, the files on disk are exactly the files of the succeeding tasks,
\* each holding bytes the adapter returned to a succeeding task of that file,
\* and the log box holds as many adapter-failure lines as tasks failed.
C5_BatchOutcome ==
  (/\ \A t \in Threads : Ended(t)
   /\ \A t \in Threads : Succeeded(t) \/ AdapterFailed(t))
  =>
    /\ {f[1] : f \in files} =
         {CatalogPath(threads[t].filename) : t \in {u \in Threads : Succeeded(u)}}
    /\ \A f \in files :
         \E t \in Threads :
           /\ Succeeded(t)
           /\ f[1] = CatalogPath(threads[t].filename)
           /\ f[2] \in Range(threads[t].returned)
    /\ Cardinality({i \in 1..Len(log_box) : IsAdapterFailureLine(log_box[i])}) =
         Cardinality({t \in Threads : AdapterFailed(t)})

\* Two tasks of different files have ended, one with its file written and
\* one with a failed adapter call.
C5_Witness ==
  /\ \A t \in Threads : Ended(t)
  /\ \E t, u \in Threads :
       /\ Succeeded(t) /\ AdapterFailed(u)
       /\ threads[t].filename # threads[u].filename
       /\ FileContent(files, CatalogPath(threads[t].filename)) # None
       /\ FileContent(files, CatalogPath(threads[u].filename)) = None

\* C6: a run of one of the five Incity group handlers with an image path set
\* and a non-blank credential starts one thread for each filename of the
\* buttons create_buttons declares in that group, and none twice nor any other.
C6_GroupStartsItsButtons ==
  [][(/\ DispatchRuns
      /\ last'.op \in GroupOps
      /\ reference_image_path # None
      /\ ~Blank(api_entry))
     => /\ last'.dialogs = 0
        /\ Len(threads') = Len(threads) + last'.started
        /\ NoDuplicates(StartedFiles')
        /\ Range(StartedFiles') = Filenames(GroupButtons(last'.op))]_vars

\* A group handler has just started the threads of its group.
C6_Witness ==
  /\ last.op = "generate_all_day"
  /\ last.started = Len(buttons_day)
  /\ Len(threads) = last.started

\* C7: a run of generate_all_everything with an image path set and a
\* non-blank credential starts exactly one thread for each of the 29 tasks of
\* the Incity catalog.
C7_EverythingStartsCatalog ==
  [][(/\ DispatchRuns
      /\ last'.op = "generate_all_everything"
      /\ reference_image_path # None
      /\ ~Blank(api_entry))
     => /\ last'.dialogs = 0
        /\ last'.started = 29
        /\ Len(threads') = Len(threads) + 29
        /\ NoDuplicates(StartedFiles')
        /\ Range(StartedFiles') = Filenames(incity_buttons)
        /\ Filenames(incity_buttons) =
             UNION {Filenames(GroupButtons(op)) : op \in GroupOps}]_vars

\* generate_all_everything has just started its 29 threads.
C7_Witness ==
  /\ last.op = "generate_all_everything"
  /\ last.started = 29
  /\ Len(threads) = 29

\* C8 as claimed: in every prompt sent to the adapter the preservation
\* clauses come before the task's fragment.
C8_PreservationFirst ==
  \A t \in Threads :
    Sent(t) =>
      \A c \in PreservationClauses(app) :
        /\ Contains(threads[t].request.prompt, c)
        /\ Find(threads[t].request.prompt, c)
             < Find(threads[t].request.prompt, threads[t].prompt_details)

\* C8 as amended: every prompt sent to the adapter begins with the generator's
\* fixed instruction sentence, immediately followed by the task's fragment, and
\* every preservation clause comes after the fragment.
C8_FragmentThenPreservation ==
  \A t \in Threads :
    Sent(t) =>
      /\ StartsWith(threads[t].request.prompt,
                    InstructionHead(app) \o threads[t].prompt_details)
      /\ \A c \in PreservationClauses(app) :
           FindFrom(threads[t].request.prompt, c,
                    Len(InstructionHead(app)) + Len(threads[t].prompt_details) + 1) > 0

\* An Incity task has sent its prompt to the adapter.
C8_Witness ==
  \E t \in Threads : Sent(t) /\ app = "incity" /\ threads[t].pc = "await"

\* C9: every prompt sent to the adapter contains the task's fragment and every
\* preservation clause of the generator's template.
C9_PromptHasEveryClause ==
  \A t \in Threads :
    Sent(t) =>
      /\ Contains(threads[t].request.prompt, threads[t].prompt_details)
      /\ \A c \in PreservationClauses(app) :
           Contains(threads[t].request.prompt, c)

\* A Lyon task has sent its prompt to the adapter.
C9_Witness ==
  \E t \in Threads : Sent(t) /\ app = "lyon" /\ threads[t].pc = "await"

\* C10: no exception leaves generate_task, and every task that has ended has
\* logged a success or a failure entry. os.makedirs is called outside every
\* try, so its exception leaves the task with nothing logged but the progress
\* entry.
C10_NothingEscapes ==
  \A t \in Threads :
    Ended(t) =>
      /\ threads[t].pc = "done"
      /\ \E i \in 1..Len(threads[t].logged) :
           ~IsProgressMessage(threads[t].logged[i])


\* Room for one more dispatch of any size, whatever was started so far.
FurtherCap ==
  [threads |-> Len(threads) + Len(incity_buttons), dispatches |-> NDispatch + 1]

\* Every started thread is blocked in its adapter call.
AllBlocked ==
  threads # <<>> /\ \A t \in Threads : threads[t].pc = "await"

\* C11: a thread that has reached its adapter call can enter it however many
\* other threads are blocked in theirs, and while every started thread is
\* blocked in its adapter call the GUI thread can still run a dispatch
\* handler or load_image.
C11_NoBoundOnRequests ==
  /\ \A t \in Threads :
       threads[t].pc = "call" => ENABLED generate_task_call(t)
  /\ AllBlocked =>
       /\ ENABLED generate_all_day(FurtherCap)
       /\ \A i \in 1..Len(Buttons(app)) :
            ENABLED trigger_generation(Buttons(app)[i][1], Buttons(app)[i][2],
                                       FurtherCap)
       /\ \A f \in PickableFiles : ENABLED load_image("ok", f)

\* The 29 threads of generate_all_everything are all blocked in their
\* adapter call at the same time.
C11_Witness ==
  /\ last.op = "generate_all_everything"
  /\ Len(threads) = 29
  /\ adapter_calls = 29
  /\ AllBlocked

\* Thread t has ended with its file written and a success entry logged, or
\* with a failure entry logged.
EndedLogged(t) ==
  /\ t <= Len(threads)
  /\ threads[t].result \in
       {"ok", "client_error", "api_error", "no_image", "write_error"}

\* C12: under a fair scheduler and an adapter that answers every call, every
\* started task eventually ends with a success or a failure entry logged.
\* A task whose os.makedirs raises (C10) ends without either.
C12_EveryTaskEndsLogged ==
  \A t \in 1..MaxThreads : (t <= Len(threads)) ~> EndedLogged(t)

\* C13: the adapter was called once for each thread that has sent a request
\* and never more often than threads were started, and a task whose adapter
\* call failed has ended.
C13_AtMostOneCall ==
  /\ adapter_calls = Cardinality({t \in Threads : Sent(t)})
  /\ adapter_calls <= Len(threads)
  /\ \A t \in Threads : AdapterFailed(t) => Ended(t)

\* Two tasks have ended after a failed adapter call, two calls in all.
C13_Witness ==
  /\ Len(threads) = 2
  /\ \A t \in Threads : AdapterFailed(t) /\ Ended(t)
  /\ \E t \in Threads : threads[t].result = "api_error"
  /\ adapter_calls = 2

\* C14: every request sent to the adapter carries the image the session
\* held when the task was dispatched. generate_task reads self.pil_image
\* when it makes the call, so a load_image in between changes what is sent.
C14_SendsImageOfDispatch ==
  \A t \in Threads :
    Sent(t) => threads[t].request.image = threads[t].image_at_start

\* C15: a run of a dispatch handler whose precondition check fails shows its
\* one dialog and leaves the threads, the adapter, the output directory, the
\* files, the log box, the session image and the credential as they were.
C15_RefusalChangesNothing ==
  [][(Precheck # "ok" /\ DispatchRuns)
       => /\ last'.dialogs = 1
          /\ last'.started = 0
          /\ UNCHANGED <<threads, adapter_calls, dir_exists, files, log_box,
                         reference_image_path, pil_image, api_entry>>]_vars

\* A task button has just been refused for a blank credential, after a load
\* that wrote to the log box.
C15_Witness ==
  /\ last.op = "trigger_generation"
  /\ last.dialogs = 1
  /\ pil_image # None
  /\ Blank(api_entry)
  /\ threads = <<>>

\* C16: in the Incity generator every started thread, whether started by a
\* task button or by a batch handler, carries the (filename, prompt) pair of
\* the button create_buttons declares for its filename.
C16_SamePairOnEveryPath ==
  app = "incity" =>
    \A t \in Threads :
      /\ threads[t].filename \in Filenames(incity_buttons)
      /\ \A i \in 1..Len(incity_buttons) :
           incity_buttons[i][1] = threads[t].filename
             => incity_buttons[i][2] = threads[t].prompt_details

\* generate_all_night has just started its five threads.
C16_Witness ==
  /\ last.op = "generate_all_night"
  /\ last.started = Len(night_colors)
  /\ Len(threads) = Len(night_colors)

\* The groups of buttons create_buttons declares, each in declared order.
CatalogGroups(a) ==
  IF a = "incity"
  THEN <<buttons_day, easter_eggs_day, easter_eggs, buttons_night,
         buttons_fullmoon>>
  ELSE <<lyon_buttons_A, lyon_buttons_B, lyon_buttons_C, lyon_buttons_D,
         lyon_buttons_F>>

\* Any dispatch operation the window offers.
AnyDispatch(cap) ==
  \/ \E i \in 1..Len(Buttons(app)) :
       trigger_generation(Buttons(app)[i][1], Buttons(app)[i][2], cap)
  \/ generate_all_day(cap)
  \/ generate_all_easter_day(cap)
  \/ generate_all_easter_night(cap)
  \/ generate_all_night(cap)
  \/ generate_all_fullmoon(cap)
  \/ generate_all_everything(cap)

\* The filenames of a list of buttons, in order.
FilenamesInOrder(pairs) == [i \in 1..Len(pairs) |-> pairs[i][1]]

\* One operation starts the tasks of the group, all of them and in the
\* order in which they are declared.
ExpandAll(group) ==
  /\ AnyDispatch(FurtherCap)
  /\ Len(threads') = Len(threads) + Len(group)
  /\ \A i \in 1..Len(group) :
       threads'[Len(threads) + i].filename = group[i][1]

GroupHandler(op, cap) ==
  CASE op = "generate_all_day" -> generate_all_day(cap)
    [] op = "generate_all_easter_day" -> generate_all_easter_day(cap)
    [] op = "generate_all_easter_night" -> generate_all_easter_night(cap)
    [] op = "generate_all_night" -> generate_all_night(cap)
    [] op = "generate_all_fullmoon" -> generate_all_fullmoon(cap)

\* The handler of the group starts the group's tasks, all of them and in
\* declared order.
HandlerExpands(op) ==
  /\ GroupHandler(op, DispatchCap)
  /\ Len(threads') = Len(threads) + Len(GroupButtons(op))
  /\ \A i \in 1..Len(GroupButtons(op)) :
       threads'[Len(threads) + i].filename = GroupButtons(op)[i][1]

Siblings(t, u) ==
  /\ t \in Running
  /\ u \in Running
  /\ t # u
  /\ threads[t].batch = threads[u].batch

\* Task t takes the step that ends it while task u is still under way.
EndsFirst(t, u) ==
  /\ TaskThreadStep(t)
  /\ threads'[t].pc \in {"done", "raised"}
  /\ threads'[u].pc \notin {"done", "raised"}

\* C18: the program imposes no completion order on the tasks of a batch.
\* A task of a batch that has not ended can take its next step whatever the
\* position of its sibling, and when two siblings are both at their last
\* step either of them can end first, the first started as well as the
\* later started.
C18_NoCompletionOrder ==
  \A t \in Running, u \in Running :
    Siblings(t, u) =>
      /\ ~Ended(t) => ENABLED TaskThreadStep(t)
      /\ (threads[t].pc = "final" /\ threads[u].pc = "final") =>
           /\ ENABLED EndsFirst(t, u)
           /\ ENABLED EndsFirst(u, t)

\* The later-started task of a batch has ended, with its file written, while
\* the task started before it has not taken a step yet.
C18_Witness ==
  /\ Len(threads) >= 2
  /\ threads[1].batch = threads[2].batch
  /\ threads[2].result = "ok"
  /\ threads[1].pc = "start"

\* ---------------------------------------------------------------------
\* C19: the reference path and the decoded image are replaced together
\* ---------------------------------------------------------------------

\* C19 as claimed: after any sequence of load_image operations the reference
\* path is set exactly when the decoded image is set, and the decoded image
\* is the decoding of the file the reference path names.
C19_PathAndImageTogether ==
  /\ (reference_image_path = None) <=> (pil_image = None)
  /\ pil_image # None => pil_image = Decode(reference_image_path)

\* ---------------------------------------------------------------------
\* C20: sibling tasks and the output directory
\* ---------------------------------------------------------------------

\* Task t has passed the creation of the output directory.
PastMakedirs(t) ==
  \/ threads[t].pc \in {"call", "await", "parts", "final"}
  \/ threads[t].request.prompt # None

\* Task t passes os.makedirs and stands at its adapter call, the directory
\* being there.
ProceedsToCall(t) ==
  /\ \E ok \in BOOLEAN : generate_task_makedirs(t, ok)
  /\ threads'[t].pc = "call"
  /\ dir_exists'

\* Task t is stopped by os.makedirs.
StoppedAtMakedirs(t) ==
  /\ \E ok \in BOOLEAN : generate_task_makedirs(t, ok)
  /\ threads'[t].pc # "call"

\* C20: the tasks of a batch and the output directory. A task at its
\* os.makedirs step can create or find the directory and go on to its
\* adapter call; once the directory is there (a sibling made it first) the
\* step cannot stop the task; and the directory is there for every task
\* that has passed the step, hence before any file is written.
C20_SiblingsShareDirectory ==
  /\ \A t \in Threads :
       threads[t].pc = "makedirs" =>
         /\ ENABLED ProceedsToCall(t)
         /\ dir_exists => ~ENABLED StoppedAtMakedirs(t)
  /\ \A t \in Threads :
       (PastMakedirs(t) \/ threads[t].writes # <<>>) => dir_exists
  /\ files # {} => dir_exists

\* Two tasks of one batch, started while the directory was not there, have
\* both passed os.makedirs: one stands at its adapter call, the other has
\* written its file.
C20_Witness ==
  /\ Len(threads) >= 2
  /\ threads[1].batch = threads[2].batch
  /\ PastMakedirs(1)
  /\ PastMakedirs(2)
  /\ threads[1].pc = "call"
  /\ threads[2].result = "ok"
  /\ files # {}

\* ---------------------------------------------------------------------
\* C21: the tasks of a batch write distinct files
\* ---------------------------------------------------------------------

\* The path task t writes.
PathOf(t) == final_path(app, threads[t].filename)

\* C21: the filenames of each generator's catalog are pairwise distinct, the
\* tasks started by one batch operation have pairwise distinct paths, and
\* the file of a task of the batch holds what that task wrote last: no
\* sibling has overwritten it.
C21_BatchWritesDistinctFiles ==
  /\ NoDuplicates(FilenamesInOrder(incity_buttons))
  /\ NoDuplicates(FilenamesInOrder(lyon_buttons))
  /\ \A t \in Threads, u \in Threads :
       (t # u /\ threads[t].batch = threads[u].batch) => PathOf(t) # PathOf(u)
  /\ \A t \in Threads :
       threads[t].writes # <<>> =>
         FileContent(files, PathOf(t)) = threads[t].writes[Len(threads[t].writes)]

\* generate_all_everything has started its 29 tasks and two of them have
\* ended with their files written, side by side in the output directory.
C21_Witness ==
  /\ last.op = "generate_all_everything"
  /\ Len(threads) = 29
  /\ threads[1].result = "ok"
  /\ threads[2].result = "ok"
  /\ Cardinality(files) = 2

\* ---------------------------------------------------------------------
\* C22: a failing client construction
\* ---------------------------------------------------------------------

\* C22: a task whose client construction raised has appended exactly one
\* log entry, the client error, and has ended without sending a request and
\* without writing; in a session with that single task the log box has
\* grown by that one line, the output directory has not been created, the
\* adapter has not been called and no file exists.
C22_ClientErrorEndsQuietly ==
  \A t \in Threads :
    threads[t].result = "client_error" =>
      /\ threads[t].pc = "done"
      /\ threads[t].logged = <<MsgClientError(app, ErrClient)>>
      /\ ~Sent(t)
      /\ threads[t].writes = <<>>
      /\ Len(threads) = 1 =>
           /\ log_box[Len(log_box)] = LogText(MsgClientError(app, ErrClient))
           /\ Len(log_box) = Len(MsgReady(app)) + 2
           /\ ~dir_exists
           /\ adapter_calls = 0
           /\ files = {}

\* The only task of the session has ended on a client error.
C22_Witness ==
  /\ Len(threads) = 1
  /\ threads[1].result = "client_error"
  /\ threads[1].pc = "done"

\* ---------------------------------------------------------------------
\* C23: a cancelled file picker
\* ---------------------------------------------------------------------

\* C23: a load_image whose file picker is cancelled leaves the reference
\* path, the decoded image and the log as they were, touches no thread and
\* no file, and the two checks of a dispatch give the answer they gave
\* before.
C23_CancelledLoadChangesNothing ==
  [][\A file_path \in PickableFiles :
       load_image("cancel", file_path) =>
         /\ UNCHANGED <<reference_image_path, pil_image, log_box, api_entry,
                        threads, dir_exists, files, adapter_calls>>
         /\ Precheck' = Precheck]_vars

\* The picker was cancelled after a task had been dispatched, no load having
\* succeeded or failed since the session was ready, and the task has then
\* sent the image that was loaded all along.
C23_Witness ==
  /\ last.op = "load_image"
  /\ loads = 0
  /\ Len(threads) = 1
  /\ threads[1].pc = "await"
  /\ pil_image # None
  /\ threads[1].request.image = pil_image

\* ---------------------------------------------------------------------
\* C24: the credential a task builds its client with
\* ---------------------------------------------------------------------

\* C24 as claimed: the credential a task thread holds for its client is not
\* empty and is the one the field held when the task was dispatched (in
\* SpecCredential the field holds ReadyEntry at every dispatch), whatever
\* the user types in the field afterwards.
C24_ClientUsesDispatchCredential ==
  \A t \in Threads :
    threads[t].api_key # None =>
      /\ threads[t].api_key # ""
      /\ threads[t].api_key = strip(ReadyEntry)

\* ---------------------------------------------------------------------
\* C25: concurrent tasks and their output paths
\* ---------------------------------------------------------------------

\* Task t is inside the loop over the parts of its response, the place where
\* generate_task writes its file.
Writing(t) == threads[t].pc = "parts"

\* C25 as claimed: whatever the dispatches were, two tasks that are writing
\* at the same time write different paths.
C25_ConcurrentTasksDistinctPaths ==
  \A t \in Threads, u \in Threads :
    (t # u /\ Writing(t) /\ Writing(u)) => PathOf(t) # PathOf(u)

\* ---------------------------------------------------------------------
\* C26: the file and the first image part
\* ---------------------------------------------------------------------

\* C26 as claimed: once a task has written, its file holds the data of the
\* first part of the response that carried an image, and the task has
\* written once: no later part has been written over it.
C26_FileHoldsFirstImagePart ==
  \A t \in Threads :
    threads[t].writes # <<>> =>
      /\ FileContent(files, PathOf(t)) = threads[t].returned[1]
      /\ Len(threads[t].writes) = 1

\* ---------------------------------------------------------------------
\* C27: the final log entry and the file
\* ---------------------------------------------------------------------

\* Task t has logged its success entry.
LoggedSuccess(t) ==
  \E i \in 1..Len(threads[t].logged) :
    threads[t].logged[i] = MsgOk(app, threads[t].filename)

\* Task t has logged that the response carried no image.
LoggedNoImage(t) ==
  \E i \in 1..Len(threads[t].logged) :
    threads[t].logged[i] = MsgNoImage(app, threads[t].filename)

\* C27: a task that has logged its success entry has completed a write and
\* its file holds what it wrote last; a task that has logged the no-image
\* entry has written nothing and has left no file; and no task has logged
\* both a success entry and a failure entry.
C27_FinalEntryMatchesFile ==
  \A t \in Threads :
    /\ LoggedSuccess(t) =>
         /\ threads[t].writes # <<>>
         /\ FileContent(files, PathOf(t)) =
              threads[t].writes[Len(threads[t].writes)]
    /\ LoggedNoImage(t) =>
         /\ threads[t].writes = <<>>
         /\ FileContent(files, PathOf(t)) = None
    /\ ~(LoggedSuccess(t) /\ FailureEntries(t) # {})

\* A task has ended with its success entry logged behind its progress
\* entry, its file written.
C27_Witness ==
  /\ Len(threads) = 1
  /\ threads[1].pc = "done"
  /\ LoggedSuccess(1)
  /\ Len(threads[1].logged) = 2
  /\ FileContent(files, PathOf(1)) # None
====
